---- MODULE Spec2Model ----
(***************************************************************************)
(* RvaIndexLookup (Il2CppDumper-CPP): the decoder side of a two-level      *)
(* sparse index.  Index file 1 is a routing table of block descriptors,    *)
(* index file 2 holds delta-encoded blocks of (rva, line) records.         *)
(* Load parses and validates the two headers and the routing table;        *)
(* FindClosestLowerOrEqualLine routes a query to a block, decodes it (or   *)
(* takes it from the single-slot cache) and returns the floor record.      *)
(*                                                                         *)
(* Widths: an RVA is a uint64_t in the program.  The model keeps the       *)
(* modular arithmetic and scales the modulus down to KeyMod, so that       *)
(* startRva + addrDelta can wrap.  Lines, sizes and counts are uint32_t    *)
(* values that never come near their limit here.                           *)
(***************************************************************************)
EXTENDS Integers, Sequences, FiniteSets, TLC

\* ------------------------------------------------------------- bounds
KeyMod == 8
MaxEntries == 2
MaxRecords == 2

\* -------------------------------------------------- program constants
kVersion1 == 1
kVersion2 == 2
kVersion3 == 3
BlockHeaderSize == 16
RecordSize == 8
NoBlock == -1

kIndex1Magic == "IDX1"
kIndex2Magic == "IDX2"

Keys == 0 .. (KeyMod - 1)
EmptyBlock == [rvas |-> <<>>, lines |-> <<>>]

VARIABLES
    disk,                  \* the index files on disk (never written by the program)
    index1Entries_,        \* std::vector<Index1Entry>
    index2Path_,           \* std::string
    totalDumpLines_,       \* uint32_t
    index2Stream_,         \* std::ifstream: "" when closed, else the path it has open
    index2OpenAttempted_,  \* bool
    lastError_,            \* std::string
    cachedBlockIndex_,     \* size_t, NoBlock when the slot is empty
    cachedBlock_,          \* DecodedBlock
    last                   \* the most recent call on the instance and what it returned:
                           \* op, Load's index1Path, the query, the return value, whether
                           \* *outLine was written and with what, the return statement
                           \* taken, whether the candidate block was a cache hit, whether
                           \* index file 2 was opened, and the last Load's return value

vars == <<disk, index1Entries_, index2Path_, totalDumpLines_, index2Stream_,
          index2OpenAttempted_, lastError_, cachedBlockIndex_, cachedBlock_, last>>

\* ------------------------------------------------- the files on disk
\* A directory holds one pair of index files, "idx1" and "idx2", and damaged
\* copies of each.  The pair is drawn from the shapes below; it covers
\* well-formed indexes and indexes that pass Load but have corrupt blocks, keys
\* that wrap, keys out of order across blocks, duplicate keys and empty blocks.
Deltas == {0, 2}
Defects == {"small", "count", "extend"}
DeltaSeqs == UNION {[1 .. k -> Deltas] : k \in 0 .. MaxRecords}

\* A block starts at its routing key ("route") or at the highest RVA ("top", so
\* that the delta chain wraps); a defect makes the routing size or the header's
\* record count disagree with the records stored.
BlockShapes ==
    {[start |-> "route", deltas |-> d, defect |-> "none"] : d \in DeltaSeqs}
        \cup {[start |-> "top", deltas |-> d, defect |-> "none"] : d \in {<<0>>, <<2>>, <<0, 2>>}}
        \cup {[start |-> "route", deltas |-> <<2>>, defect |-> x] : x \in Defects}

PlainShape == [start |-> "route", deltas |-> <<0>>, defect |-> "none"]

\* Routing startRva of entry i (0-based): the second entry lies gap after the
\* first (gap -1 gives an unsorted table), later ones two apart.
RouteKey(i, gap) ==
    IF i = 0 THEN 1 ELSE (1 + gap + 2 * (i - 1)) % KeyMod

StartLineOf(i) == 10 * (i + 1)

MakeEntry(i, gap, shape) ==
    [startRva |-> RouteKey(i, gap),
     index2Offset |-> i + 1,
     index2Size |->
        CASE shape.defect = "small" -> 8
          [] shape.defect = "extend" -> BlockHeaderSize + RecordSize * (Len(shape.deltas) + 1)
          [] OTHER -> BlockHeaderSize + RecordSize * Len(shape.deltas)]

MakeBlock(i, gap, shape, zero) ==
    [startRva |-> IF shape.start = "route" THEN RouteKey(i, gap) ELSE KeyMod - 1,
     startLine |-> StartLineOf(i),
     recordCount |-> Len(shape.deltas) + (IF shape.defect \in {"count", "extend"} THEN 1 ELSE 0),
     recs |-> [j \in 1 .. Len(shape.deltas) |->
                 [addrDelta |-> shape.deltas[j],
                  absoluteLine |-> IF zero THEN 0 ELSE StartLineOf(i) + j]]]

\* The first two blocks vary, later ones are plain one-record blocks.
ShapeAt(i, s0, s1) == IF i = 0 THEN s0 ELSE IF i = 1 THEN s1 ELSE PlainShape

\* zero: the encoder wrote every absoluteLine as 0 (and a version 1 header).
MakeDisk(n, gap, s0, s1, zero) ==
    [version |-> IF zero THEN kVersion1 ELSE kVersion2,
     total |-> 7,
     entries |-> [i \in 1 .. n |-> MakeEntry(i - 1, gap, ShapeAt(i - 1, s0, s1))],
     blocks |-> [i \in 1 .. n |-> MakeBlock(i - 1, gap, ShapeAt(i - 1, s0, s1), zero)]]

Disks ==
    {MakeDisk(1, 4, s0, PlainShape, z) : s0 \in BlockShapes, z \in BOOLEAN}
        \cup {MakeDisk(2, 4, s0, s1, z) : s0 \in BlockShapes, s1 \in BlockShapes, z \in BOOLEAN}
        \cup {MakeDisk(2, 0, s0, s1, FALSE) : s0 \in BlockShapes, s1 \in BlockShapes}
        \cup UNION {{MakeDisk(n, 4, s0, s1, FALSE) : s0 \in BlockShapes, s1 \in BlockShapes}
                        : n \in 3 .. MaxEntries}
        \cup {MakeDisk(n, -1, PlainShape, PlainShape, FALSE) : n \in 2 .. MaxEntries}

\* A second, unrelated index ("idx1.alt", "idx2.alt"): one block, one record.
AltEntries == <<[startRva |-> 0, index2Offset |-> 1, index2Size |-> BlockHeaderSize + RecordSize]>>
AltBlocks ==
    <<[startRva |-> 0, startLine |-> 90, recordCount |-> 1,
       recs |-> <<[addrDelta |-> 1, absoluteLine |-> 91]>>]>>

Paths1 == {"idx1", "idx1.alt", "idx1.missing", "idx1.trunc", "idx1.badmagic", "idx1.badver",
           "idx1.short", "idx1.empty"}
Paths2 == {"idx2", "idx2.alt", "idx2.missing", "idx2.trunc", "idx2.badmagic", "idx2.badver",
           "idx2.nototal", "idx2.count"}

\* The path pairs Load is called with: each damaged copy against the good
\* file of the other kind, and the two good pairs.
LoadArgs ==
    {<<p1, "idx2">> : p1 \in Paths1 \ {"idx1.alt"}}
        \cup {<<"idx1", p2>> : p2 \in Paths2 \ {"idx2.alt"}}
        \cup {<<"idx1.alt", "idx2.alt">>}

\* What std::ifstream sees at a path of index file 1.
File1At(p) ==
    [present |-> p # "idx1.missing",
     header |-> p # "idx1.trunc",
     magic |-> IF p = "idx1.badmagic" THEN "XXXX" ELSE kIndex1Magic,
     version |-> IF p = "idx1.badver" THEN 4 ELSE disk.version,
     entryCount |-> CASE p = "idx1.short" -> Len(disk.entries) + 1
                      [] p = "idx1.empty" -> 0
                      [] p = "idx1.alt" -> Len(AltEntries)
                      [] OTHER -> Len(disk.entries),
     entries |-> CASE p = "idx1.empty" -> <<>>
                   [] p = "idx1.alt" -> AltEntries
                   [] OTHER -> disk.entries]

\* What std::ifstream sees at a path of index file 2.
File2At(p) ==
    [present |-> p # "idx2.missing",
     header |-> p # "idx2.trunc",
     magic |-> IF p = "idx2.badmagic" THEN "XXXX" ELSE kIndex2Magic,
     version |-> CASE p = "idx2.badver" -> 0
                   [] p = "idx2.nototal" -> kVersion2
                   [] p = "idx2.count" -> kVersion3
                   [] OTHER -> disk.version,
     blockCount |-> CASE p = "idx2.count" -> Len(disk.blocks) + 1
                      [] p = "idx2.alt" -> Len(AltBlocks)
                      [] OTHER -> Len(disk.blocks),
     hasTotal |-> p # "idx2.nototal",
     total |-> disk.total,
     blocks |-> CASE p = "idx2.nototal" -> <<>>
                  [] p = "idx2.alt" -> AltBlocks
                  [] OTHER -> disk.blocks]

\* ------------------------------------------------------ byte helpers
\* The 8-byte words that follow a block's 16-byte header up to the end of the
\* file, read as (addrDelta, absoluteLine) records: the block's own records,
\* then the bytes of the blocks stored after it (a header is two such words).
RECURSIVE WordsFrom(_, _)
WordsFrom(blocks, slot) ==
    IF slot > Len(blocks) THEN <<>>
    ELSE blocks[slot].recs \o
         (IF slot = Len(blocks) THEN <<>>
          ELSE <<[addrDelta |-> blocks[slot + 1].startRva, absoluteLine |-> 0],
                 [addrDelta |-> blocks[slot + 1].startLine,
                  absoluteLine |-> blocks[slot + 1].recordCount]>>
               \o WordsFrom(blocks, slot + 1))

\* v bound to a name inside F: a local variable of the program, computed once.
Bind(v, F(_)) == CHOOSE y \in {F(x) : x \in {v}} : TRUE

ReadFailed == [ok |-> FALSE, startRva |-> 0, startLine |-> 0, recordCount |-> 0, words |-> <<>>]

\* seekg(index2Offset) and ReadFully of index2Size bytes, then the header fields.
ReadBlock(path, index2Offset, index2Size) ==
    Bind(File2At(path).blocks, LAMBDA blocks :
        IF index2Offset \notin 1 .. Len(blocks) THEN ReadFailed
        ELSE Bind(WordsFrom(blocks, index2Offset), LAMBDA words :
                [ok |-> index2Size <= BlockHeaderSize + RecordSize * Len(words),
                 startRva |-> blocks[index2Offset].startRva,
                 startLine |-> blocks[index2Offset].startLine,
                 recordCount |-> blocks[index2Offset].recordCount,
                 words |-> words]))

\* std::is_sorted with operator<.
IsSorted(seq) == \A i \in 1 .. Len(seq) - 1 : ~(seq[i + 1] < seq[i])

\* A faulty variant: the routing table is not checked.
IsSortedByStartRvaSkipped(entries) == TRUE

\* std::is_sorted of the routing table by startRva.
IsSortedByStartRva(entries) ==
    IsSorted([i \in 1 .. Len(entries) |-> entries[i].startRva])

\* std::upper_bound: the offset from begin() of the first element val is less than.
RECURSIVE UpperBoundFrom(_, _, _, _)
UpperBoundFrom(seq, val, first, len) ==
    IF len <= 0 THEN first
    ELSE LET half == len \div 2
             mid == first + half
         IN  IF val < seq[mid + 1]
             THEN UpperBoundFrom(seq, val, first, half)
             ELSE UpperBoundFrom(seq, val, mid + 1, len - half - 1)

UpperBound(seq, val) == UpperBoundFrom(seq, val, 0, Len(seq))

\* ------------------------------------------------------ block decoding
\* The record loop of LoadDecodedBlock: the running RVA (uint64_t, wraps).
RECURSIVE DecodeRvas(_, _, _)
DecodeRvas(currentRva, words, recordCount) ==
    IF recordCount = 0 THEN <<>>
    ELSE LET next == (currentRva + Head(words).addrDelta) % KeyMod
         IN  <<next>> \o DecodeRvas(next, Tail(words), recordCount - 1)

\* A faulty variant: every record storing 0 is given the block's startLine.
DecodeLineZeroAnywhere(i, absoluteLine, startLine) ==
    IF absoluteLine = 0 THEN startLine ELSE absoluteLine

\* The line pushed for record i (0-based).
DecodeLine(i, absoluteLine, startLine) ==
    IF i = 0 THEN (IF absoluteLine = 0 THEN startLine ELSE absoluteLine)
    ELSE absoluteLine

DecodeRecords(startRva, startLine, recordCount, words) ==
    [rvas |-> DecodeRvas(startRva, words, recordCount),
     lines |-> [i \in 1 .. recordCount |-> DecodeLine(i - 1, words[i].absoluteLine, startLine)]]

\* A faulty variant: the decoded RVAs are not checked.
RvasSortedSkipped(rvas) == TRUE

\* The check after the record loop.
RvasSorted(rvas) == rvas = <<>> \/ IsSorted(rvas)

\* The mutable members a const lookup may change.
Members ==
    [stream |-> index2Stream_, attempted |-> index2OpenAttempted_, lastError |-> lastError_,
     cidx |-> cachedBlockIndex_, cblk |-> cachedBlock_]

\* A faulty variant: a failed open leaves no record.
EnsureIndex2OpenUnrecorded(m, path) ==
    IF m.stream # ""
    THEN [m |-> m, ok |-> TRUE, err |-> "", fsOpen |-> FALSE]
    ELSE IF ~File2At(path).present
    THEN [m |-> m, ok |-> FALSE, err |-> "Failed to open index2 file: " \o path, fsOpen |-> TRUE]
    ELSE [m |-> [m EXCEPT !.attempted = TRUE, !.stream = path],
          ok |-> TRUE, err |-> "", fsOpen |-> TRUE]

EnsureIndex2Open(m, path) ==
    IF m.stream # ""
    THEN [m |-> m, ok |-> TRUE, err |-> "", fsOpen |-> FALSE]
    ELSE IF m.attempted
    THEN [m |-> m, ok |-> FALSE, err |-> m.lastError, fsOpen |-> FALSE]
    ELSE IF ~File2At(path).present
    THEN [m |-> [m EXCEPT !.attempted = TRUE,
                          !.lastError = "Failed to open index2 file: " \o path],
          ok |-> FALSE, err |-> "Failed to open index2 file: " \o path, fsOpen |-> TRUE]
    ELSE [m |-> [m EXCEPT !.attempted = TRUE, !.stream = path],
          ok |-> TRUE, err |-> "", fsOpen |-> TRUE]

\* A faulty variant: any occupied slot counts as a hit.
CacheHitAnyBlock(m, blockIndex) == m.cidx # NoBlock

CacheHit(m, blockIndex) == m.cidx = blockIndex

StoreInCache(m, blockIndex, decoded) == [m EXCEPT !.cidx = blockIndex, !.cblk = decoded]

DecodeFailed(m, err) == [m |-> m, ok |-> FALSE, block |-> EmptyBlock, err |-> err, hit |-> FALSE]

\* The part of LoadDecodedBlock after the cache check: read, validate, decode.
DecodeFromFile(m, e, blockIndex) ==
    IF e.index2Size < BlockHeaderSize
    THEN DecodeFailed(m, "Corrupt block: size smaller than block header")
    ELSE Bind(ReadBlock(m.stream, e.index2Offset, e.index2Size), LAMBDA rd :
            IF ~rd.ok THEN DecodeFailed(m, "Failed reading index2 block")
            ELSE IF BlockHeaderSize + rd.recordCount * RecordSize # e.index2Size
            THEN DecodeFailed(m, "Corrupt block: record count does not match block size")
            ELSE Bind(DecodeRecords(rd.startRva, rd.startLine, rd.recordCount, rd.words),
                      LAMBDA decoded :
                        IF ~RvasSorted(decoded.rvas)
                        THEN DecodeFailed(m, "Corrupt block: RVAs are not sorted")
                        ELSE [m |-> StoreInCache(m, blockIndex, decoded), ok |-> TRUE,
                              block |-> decoded, err |-> "", hit |-> FALSE]))

\* blockIndex is 0-based, as in the program.
LoadDecodedBlock(m, entries, path, blockIndex) ==
    IF blockIndex >= Len(entries) THEN DecodeFailed(m, "Block index out of range")
    ELSE Bind(EnsureIndex2Open(m, path), LAMBDA o :
            IF ~o.ok THEN DecodeFailed(o.m, o.err)
            ELSE IF CacheHit(o.m, blockIndex)
            THEN [m |-> o.m, ok |-> TRUE, block |-> o.m.cblk, err |-> "", hit |-> TRUE]
            ELSE DecodeFromFile(o.m, entries[blockIndex + 1], blockIndex))

\* ------------------------------------------------------------- lookup
\* The lambda floorInBlock.
FloorInBlock(b, queryRva) ==
    IF b.rvas = <<>> THEN [ok |-> FALSE, out |-> 0]
    ELSE Bind(UpperBound(b.rvas, queryRva), LAMBDA bit :
            IF bit = 0 THEN [ok |-> FALSE, out |-> 0]
            ELSE [ok |-> TRUE, out |-> b.lines[bit]])

\* A faulty variant: prevBlock.lines.front()
FallbackLineFront(prevBlock) == prevBlock.lines[1]

\* prevBlock.lines.back()
FallbackLine(prevBlock) == prevBlock.lines[Len(prevBlock.lines)]

Miss(m, exit, hit) == [m |-> m, ret |-> FALSE, wrote |-> FALSE, out |-> 0, exit |-> exit, hit |-> hit]

Hit(m, out, exit, hit) == [m |-> m, ret |-> TRUE, wrote |-> TRUE, out |-> out, exit |-> exit, hit |-> hit]

\* A faulty variant: no fallback to the previous block.
FallbackNone(c, entries, path, blockIndex) == Miss(c.m, "first-block-miss", c.hit)

\* The boundary fallback: the previous block's last record.
Fallback(c, entries, path, blockIndex) ==
    IF blockIndex = 0 THEN Miss(c.m, "first-block-miss", c.hit)
    ELSE Bind(LoadDecodedBlock(c.m, entries, path, blockIndex - 1), LAMBDA p :
            IF ~p.ok THEN Miss(p.m, "previous-decode-failed", c.hit)
            ELSE IF p.block.lines = <<>> THEN Miss(p.m, "previous-empty", c.hit)
            ELSE Hit(p.m, FallbackLine(p.block), "fallback", c.hit))

\* The routing step: the offset of std::upper_bound from begin().
RouteUpperBound(entries, queryRva) ==
    UpperBound([i \in 1 .. Len(entries) |-> entries[i].startRva], queryRva)

\* outLine is a valid pointer.  exit names the return statement taken, hit
\* whether the candidate block came from the cache slot.
FindClosestLowerOrEqualLine(m, entries, path, queryRva) ==
    IF entries = <<>> THEN Miss(m, "no-entries", FALSE)
    ELSE IF queryRva < entries[1].startRva THEN Miss(m, "below-first", FALSE)
    ELSE Bind(RouteUpperBound(entries, queryRva), LAMBDA it :
            IF it = 0 THEN Miss(m, "below-first", FALSE)
            ELSE Bind(LoadDecodedBlock(m, entries, path, it - 1), LAMBDA c :
                    IF ~c.ok THEN Miss(c.m, "candidate-decode-failed", FALSE)
                    ELSE Bind(FloorInBlock(c.block, queryRva), LAMBDA f :
                            IF f.ok THEN Hit(c.m, f.out, "found", c.hit)
                            ELSE Fallback(c, entries, path, it - 1))))

\* --------------------------------------------------------------- Load
\* What Load leaves in the mutable members before it reads anything.
ResetMembers ==
    [stream |-> "", attempted |-> FALSE, lastError |-> "", cidx |-> NoBlock, cblk |-> EmptyBlock]

SupportedVersion(v) == v = kVersion1 \/ v = kVersion2 \/ v = kVersion3

\* A return false of Load: the routing table and index2Path_ are cleared.
LoadFailed(m, total, err, fsOpen) ==
    [entries |-> <<>>, path |-> "", total |-> total, m |-> m, ret |-> FALSE, err |-> err,
     fsOpen |-> fsOpen]

\* Load after index2Stream_ is open: the header of index file 2.
LoadIndex2Header(o, g, entries, index2Path) ==
    IF ~g.header THEN LoadFailed(o.m, 0, "Failed to read index2 header", o.fsOpen)
    ELSE IF g.magic # kIndex2Magic
    THEN LoadFailed(o.m, 0, "index2 magic mismatch (expected IDX2)", o.fsOpen)
    ELSE IF ~SupportedVersion(g.version)
    THEN LoadFailed(o.m, 0, "Unsupported index2 version", o.fsOpen)
    ELSE IF g.version >= kVersion2 /\ ~g.hasTotal
    THEN LoadFailed(o.m, 0, "Failed to read index2 total_dump_lines", o.fsOpen)
    ELSE IF g.blockCount # Len(entries)
    THEN LoadFailed(o.m, IF g.version >= kVersion2 THEN g.total ELSE 0,
                    "index1 entry count does not match index2 block count", o.fsOpen)
    ELSE [entries |-> entries, path |-> index2Path,
          total |-> IF g.version >= kVersion2 THEN g.total ELSE 0,
          m |-> o.m, ret |-> TRUE, err |-> "", fsOpen |-> o.fsOpen]

\* The index 2 half of Load, from EnsureIndex2Open on.
LoadIndex2(entries, index2Path) ==
    Bind(EnsureIndex2Open(ResetMembers, index2Path), LAMBDA o :
        IF ~o.ok THEN LoadFailed(o.m, 0, o.err, o.fsOpen)
        ELSE Bind(File2At(o.m.stream), LAMBDA g : LoadIndex2Header(o, g, entries, index2Path)))

\* The index 1 half of Load, after the file is open.
LoadIndex1(f, index2Path) ==
    IF ~f.header THEN LoadFailed(ResetMembers, 0, "Failed to read index1 header", FALSE)
    ELSE IF f.magic # kIndex1Magic
    THEN LoadFailed(ResetMembers, 0, "index1 magic mismatch (expected IDX1)", FALSE)
    ELSE IF ~SupportedVersion(f.version)
    THEN LoadFailed(ResetMembers, 0, "Unsupported index1 version", FALSE)
    ELSE IF f.entryCount > Len(f.entries)
    THEN LoadFailed(ResetMembers, 0, "Failed to read index1 entry", FALSE)
    ELSE IF f.entryCount = 0
    THEN LoadFailed(ResetMembers, 0, "index1 has no entries", FALSE)
    ELSE IF ~IsSortedByStartRva(SubSeq(f.entries, 1, f.entryCount))
    THEN LoadFailed(ResetMembers, 0, "index1 entries are not sorted by startRva", FALSE)
    ELSE LoadIndex2(SubSeq(f.entries, 1, f.entryCount), index2Path)

LoadResult(index1Path, index2Path) ==
    Bind(File1At(index1Path), LAMBDA f :
        IF ~f.present
        THEN LoadFailed(ResetMembers, 0, "Failed to open index1 file: " \o index1Path, FALSE)
        ELSE LoadIndex1(f, index2Path))

GetTotalDumpLines == totalDumpLines_

\* ------------------------------------------------------------ actions
Init ==
    /\ disk \in Disks
    /\ index1Entries_ = <<>>
    /\ index2Path_ = ""
    /\ totalDumpLines_ = 0
    /\ index2Stream_ = ""
    /\ index2OpenAttempted_ = FALSE
    /\ lastError_ = ""
    /\ cachedBlockIndex_ = NoBlock
    /\ cachedBlock_ = EmptyBlock
    /\ last = [op |-> "new", p1 |-> "", q |-> 0, ret |-> FALSE, wrote |-> FALSE, out |-> 0,
               exit |-> "", hit |-> FALSE, fsOpen |-> FALSE, loadOk |-> FALSE]

SetMembers(m) ==
    /\ index2Stream_' = m.stream
    /\ index2OpenAttempted_' = m.attempted
    /\ lastError_' = m.lastError
    /\ cachedBlockIndex_' = m.cidx
    /\ cachedBlock_' = m.cblk

Load(index1Path, index2Path) ==
    \E r \in {LoadResult(index1Path, index2Path)} :
        /\ index1Entries_' = r.entries
        /\ index2Path_' = r.path
        /\ totalDumpLines_' = r.total
        /\ SetMembers(r.m)
        /\ last' = [op |-> "Load", p1 |-> index1Path, q |-> 0, ret |-> r.ret, wrote |-> FALSE,
                    out |-> 0, exit |-> r.err, hit |-> FALSE, fsOpen |-> r.fsOpen,
                    loadOk |-> r.ret]
        /\ UNCHANGED disk

Find(queryRva) ==
    \E r \in {FindClosestLowerOrEqualLine(Members, index1Entries_, index2Path_, queryRva)} :
        /\ SetMembers(r.m)
        /\ last' = [op |-> "Find", p1 |-> "", q |-> queryRva, ret |-> r.ret, wrote |-> r.wrote,
                    out |-> r.out, exit |-> r.exit, hit |-> r.hit,
                    fsOpen |-> (r.m.stream # index2Stream_ \/ r.m.attempted # index2OpenAttempted_),
                    loadOk |-> last.loadOk]
        /\ UNCHANGED <<disk, index1Entries_, index2Path_, totalDumpLines_>>

Next ==
    \/ \E args \in LoadArgs : Load(args[1], args[2])
    \/ \E queryRva \in Keys : Find(queryRva)

Spec == Init /\ [][Next]_vars

\* ------------------------------------------------- the stored index
\* What the two files hold, read off the file layout without the lookup code:
\* block i is the block the i-th routing entry points at (1-based).
NumBlocks == Len(index1Entries_)

StoredFile == File2At(index2Path_)

BlockHeader(i) == StoredFile.blocks[index1Entries_[i].index2Offset]

BlockWords(i) == WordsFrom(StoredFile.blocks, index1Entries_[i].index2Offset)

\* The records of block i that are present in the file.
StoredCount(i) ==
    IF BlockHeader(i).recordCount <= Len(BlockWords(i)) THEN BlockHeader(i).recordCount
    ELSE Len(BlockWords(i))

RECURSIVE DeltaSum(_, _)
DeltaSum(words, j) == IF j = 0 THEN 0 ELSE DeltaSum(words, j - 1) + words[j].addrDelta

\* The key of record j of block i: startRva plus the deltas up to j, in 64 bits.
StoredKey(i, j) == (BlockHeader(i).startRva + DeltaSum(BlockWords(i), j)) % KeyMod

\* The value of record j of block i: its absoluteLine, except that a first
\* record storing zero stands for the block's startLine.
StoredValue(i, j) ==
    IF j = 1 /\ BlockWords(i)[j].absoluteLine = 0 THEN BlockHeader(i).startLine
    ELSE BlockWords(i)[j].absoluteLine

KeysNonDecreasing(i) == \A j \in 1 .. StoredCount(i) - 1 : StoredKey(i, j) <= StoredKey(i, j + 1)

\* Block i passes every structural check of the format.
BlockValid(i) ==
    /\ index1Entries_[i].index2Size >= BlockHeaderSize
    /\ BlockHeader(i).recordCount <= Len(BlockWords(i))
    /\ index1Entries_[i].index2Size = BlockHeaderSize + BlockHeader(i).recordCount * RecordSize
    /\ KeysNonDecreasing(i)

\* Block i is corrupt in one of the three ways the format names.
BlockCorrupt(i) ==
    \/ index1Entries_[i].index2Size < BlockHeaderSize
    \/ /\ index1Entries_[i].index2Size >= BlockHeaderSize
       /\ index1Entries_[i].index2Size <= BlockHeaderSize + Len(BlockWords(i)) * RecordSize
       /\ \/ index1Entries_[i].index2Size # BlockHeaderSize + BlockHeader(i).recordCount * RecordSize
          \/ ~KeysNonDecreasing(i)

StoredBlock(i) ==
    [rvas |-> [j \in 1 .. StoredCount(i) |-> StoredKey(i, j)],
     lines |-> [j \in 1 .. StoredCount(i) |-> StoredValue(i, j)]]

\* Every record of every block, as <<block, position>>.
AllRecords == UNION {{<<i, j>> : j \in 1 .. StoredCount(i)} : i \in 1 .. NumBlocks}

KeyOf(r) == StoredKey(r[1], r[2])

ValueOf(r) == StoredValue(r[1], r[2])

\* The record of S stored last in the file.
LastRecord(S) ==
    CHOOSE r \in S : \A s \in S : r[1] > s[1] \/ (r[1] = s[1] /\ r[2] >= s[2])

\* Every block has a valid structure and holds only keys from its own routing
\* startKey up to, not including, the next entry's startKey.
BlocksInRange ==
    /\ NumBlocks > 0
    /\ \A i \in 1 .. NumBlocks :
        /\ BlockValid(i)
        /\ \A j \in 1 .. StoredCount(i) :
            /\ StoredKey(i, j) >= index1Entries_[i].startRva
            /\ i < NumBlocks => StoredKey(i, j) < index1Entries_[i + 1].startRva

WellFormed == BlocksInRange /\ \A i \in 1 .. NumBlocks : StoredCount(i) >= 1

\* The last routing entry whose startKey is <= q (0 when q is below them all).
RouteIndex(q) ==
    IF NumBlocks = 0 \/ q < index1Entries_[1].startRva THEN 0
    ELSE CHOOSE i \in 1 .. NumBlocks :
            /\ index1Entries_[i].startRva <= q
            /\ \A k \in (i + 1) .. NumBlocks : index1Entries_[k].startRva > q

IsFind == last.op = "Find"

IsLoad == last.op = "Load"

\* ------------------------------------------------------------ properties
\* C9. Whenever the routing table is non-empty it is sorted non-decreasingly by
\* startKey and has exactly as many entries as index file 2 declares blocks;
\* Load returns false for an index file 1 whose entries are out of order.
RoutingTableInvariant ==
    /\ index1Entries_ # <<>> =>
        /\ \A i \in 1 .. NumBlocks - 1 :
              index1Entries_[i].startRva <= index1Entries_[i + 1].startRva
        /\ NumBlocks = StoredFile.blockCount
    /\ (IsLoad /\ \E i \in 1 .. File1At(last.p1).entryCount - 1 :
                    /\ i + 1 <= Len(File1At(last.p1).entries)
                    /\ File1At(last.p1).entries[i].startRva
                          > File1At(last.p1).entries[i + 1].startRva)
          => ~last.ret

\* An out-of-order index file 1 has just been refused.
UnsortedTableRefused ==
    IsLoad /\ ~last.ret /\ last.exit = "index1 entries are not sorted by startRva"

\* C6. After a Load that returned false the routing table and the cache slot are
\* empty, GetTotalDumpLines() is 0 and every lookup returns false.
LoadFailsClosed ==
    ~last.loadOk =>
        /\ index1Entries_ = <<>>
        /\ cachedBlockIndex_ = NoBlock
        /\ cachedBlock_ = EmptyBlock
        /\ GetTotalDumpLines = 0
        /\ IsFind => ~last.ret

\* C2. A lookup that returns true returns the value of a stored record whose key
\* is <= the query.
NoSilentMisanswer ==
    (IsFind /\ last.ret) =>
        \E r \in AllRecords : KeyOf(r) <= last.q /\ ValueOf(r) = last.out

\* C5. When every block holds only keys >= its own routing startKey and the query
\* is below every stored key, the lookup returns false and writes nothing.
BelowMinimumMiss ==
    (/\ IsFind
     /\ last.loadOk
     /\ \A r \in AllRecords : KeyOf(r) >= index1Entries_[r[1]].startRva
     /\ \A r \in AllRecords : last.q < KeyOf(r))
        => (~last.ret /\ ~last.wrote)

\* The stored keys <= q, and the greatest of them.
KeysUpTo(q) == {KeyOf(r) : r \in {r \in AllRecords : KeyOf(r) <= q}}

FloorKey(q) == CHOOSE k \in KeysUpTo(q) : \A k2 \in KeysUpTo(q) : k2 <= k

\* The record stored last among those whose key is k.
LastRecordWithKey(k) == LastRecord({r \in AllRecords : KeyOf(r) = k})

\* The query lies strictly between two adjacent stored keys.
BetweenStoredKeys ==
    /\ \E r \in AllRecords : KeyOf(r) < last.q
    /\ \E r \in AllRecords : KeyOf(r) > last.q
    /\ \A r \in AllRecords : KeyOf(r) # last.q

\* C1. In a well-formed index, a query strictly between two adjacent stored keys
\* k1 < k2 returns true and yields the value stored for k1 (that of the last
\* record with key k1 when the key is stored more than once).
FloorCorrectness ==
    (IsFind /\ last.loadOk /\ WellFormed /\ BetweenStoredKeys)
        => /\ last.ret
           /\ last.wrote
           /\ last.out = ValueOf(LastRecordWithKey(FloorKey(last.q)))

\* A query between the last key of one block and the first key of the next,
\* at or above the next block's routing startKey, has been answered.
FloorAcrossBlocks ==
    /\ IsFind /\ last.loadOk /\ WellFormed /\ BetweenStoredKeys
    /\ last.exit = "fallback"
    /\ LastRecordWithKey(FloorKey(last.q))[1] < RouteIndex(last.q)

\* C3 (as stated). With every block valid and keys inside their routing range,
\* a lookup of a stored key returns the value of every record stored under it.
ExactKeyRoundtrip ==
    (IsFind /\ last.loadOk /\ BlocksInRange)
        => \A r \in AllRecords : KeyOf(r) = last.q => (last.ret /\ last.out = ValueOf(r))

\* C3 (amended). With every block valid and keys inside their routing range, a
\* lookup of a stored key k returns true with the decoded value of the last
\* record stored under k: a first record storing 0 yields the block's
\* startLine, any later record yields its stored value, 0 included.
ExactKeyLastRecord ==
    (IsFind /\ last.loadOk /\ BlocksInRange /\ \E r \in AllRecords : KeyOf(r) = last.q)
        => /\ last.ret
           /\ last.wrote
           /\ last.out = ValueOf(LastRecordWithKey(last.q))

\* A key stored twice in one block has been looked up.
DuplicateKeyLookedUp ==
    /\ IsFind /\ last.loadOk /\ BlocksInRange /\ last.ret
    /\ \E r \in AllRecords : \E s \in AllRecords :
          r # s /\ KeyOf(r) = last.q /\ KeyOf(s) = last.q /\ ValueOf(r) # ValueOf(s)

\* The query routes to block B = RouteIndex, B is not the first block, and the
\* query is below every key physically in B.
BelowRoutedBlock ==
    /\ IsFind /\ last.loadOk
    /\ RouteIndex(last.q) >= 2
    /\ \A j \in 1 .. StoredCount(RouteIndex(last.q)) : last.q < StoredKey(RouteIndex(last.q), j)

\* C4 (as stated). A query routed to a block B that is not the first and lying
\* below every key in B returns true with the value of the last record of the
\* block before B.
BoundaryFallbackAlways ==
    BelowRoutedBlock
        => /\ last.ret
           /\ StoredCount(RouteIndex(last.q) - 1) >= 1
           /\ last.out = StoredValue(RouteIndex(last.q) - 1, StoredCount(RouteIndex(last.q) - 1))

\* B and the block before it both decode, and the block before it has a record.
FallbackBlocksUsable ==
    /\ BlockValid(RouteIndex(last.q))
    /\ BlockValid(RouteIndex(last.q) - 1)
    /\ StoredCount(RouteIndex(last.q) - 1) >= 1

\* C4 (amended). For such a query the lookup returns true with the value of the
\* last record of the block before B, provided B and that block both decode and
\* that block holds at least one record; otherwise it returns false.
BoundaryFallback ==
    BelowRoutedBlock
        => IF FallbackBlocksUsable
           THEN /\ last.ret
                /\ last.wrote
                /\ last.out = StoredValue(RouteIndex(last.q) - 1,
                                          StoredCount(RouteIndex(last.q) - 1))
           ELSE ~last.ret /\ ~last.wrote

\* The fallback has answered from a previous block holding several records.
FallbackAnswered ==
    /\ BelowRoutedBlock /\ FallbackBlocksUsable
    /\ last.ret
    /\ StoredCount(RouteIndex(last.q) - 1) >= 2

\* A lookup step whose routed candidate block has to be decoded and is corrupt.
CandidateCorrupt ==
    /\ last'.op = "Find" /\ last.loadOk
    /\ RouteIndex(last'.q) >= 1
    /\ cachedBlockIndex_ # RouteIndex(last'.q) - 1
    /\ BlockCorrupt(RouteIndex(last'.q))

\* A lookup step that falls back from a sound candidate block to a previous
\* block that has to be decoded and is corrupt.
PreviousCorrupt ==
    /\ last'.op = "Find" /\ last.loadOk
    /\ RouteIndex(last'.q) >= 2
    /\ BlockValid(RouteIndex(last'.q))
    /\ \A j \in 1 .. StoredCount(RouteIndex(last'.q)) :
          last'.q < StoredKey(RouteIndex(last'.q), j)
    /\ cachedBlockIndex_ # RouteIndex(last'.q) - 2
    /\ BlockCorrupt(RouteIndex(last'.q) - 1)

\* C7. After a successful Load, a lookup that has to decode a corrupt block (size
\* below 16, size different from 16 + recordCount*8, or keys not non-decreasing)
\* returns false and writes no value, and the corrupt block is not placed in the
\* cache slot: the slot keeps what it held before the failed decode, which in
\* the fallback is the candidate block.
CorruptionRejection ==
    [][/\ CandidateCorrupt =>
            /\ ~last'.ret /\ ~last'.wrote
            /\ cachedBlockIndex_' = cachedBlockIndex_
            /\ cachedBlock_' = cachedBlock_
       /\ PreviousCorrupt =>
            /\ ~last'.ret /\ ~last'.wrote
            /\ cachedBlockIndex_' = RouteIndex(last'.q) - 1
            /\ cachedBlock_' = StoredBlock(RouteIndex(last'.q))]_vars

\* A fallback has met a corrupt previous block; the slot holds the candidate.
PreviousBlockRejected ==
    /\ IsFind /\ last.loadOk /\ ~last.ret
    /\ last.exit = "previous-decode-failed"
    /\ RouteIndex(last.q) >= 2
    /\ BlockCorrupt(RouteIndex(last.q) - 1)
    /\ cachedBlockIndex_ = RouteIndex(last.q) - 1

\* The mutable members of a fresh instance loaded from the same files.
ColdMembers == [Members EXCEPT !.cidx = NoBlock, !.cblk = EmptyBlock]

AnswerFrom(m, q) ==
    Bind(FindClosestLowerOrEqualLine(m, index1Entries_, index2Path_, q),
         LAMBDA r : <<r.ret, r.wrote, r.out>>)

\* C8. On a loaded instance, whatever lookups came before, every query gets the
\* same found flag and the same value as on a fresh instance loaded from the
\* same files with an empty cache, and so did the lookup just made.
CacheTransparency ==
    last.loadOk =>
        /\ \A q \in Keys : AnswerFrom(Members, q) = AnswerFrom(ColdMembers, q)
        /\ IsFind => <<last.ret, last.wrote, last.out>> = AnswerFrom(ColdMembers, last.q)

\* A lookup has been answered from a block already in the cache slot.
AnsweredFromCache == IsFind /\ last.loadOk /\ last.hit /\ last.ret

\* The failed open of index file 2 is on record.
Latched == index2OpenAttempted_ /\ index2Stream_ = ""

\* C10 (as stated). Once an open of index file 2 has failed, no later call opens
\* the file again.
OpenFailureLatch == [][Latched => ~last'.fsOpen]_vars

\* C10 (amended). A failed open of index file 2 is recorded (flag and message)
\* and fails the Load; while it is on record no lookup opens the file, finds a
\* value or changes the record; the next Load clears the record, and sets it
\* again only by opening the file once more.
OpenFailureLatchUntilLoad ==
    [][/\ (last'.op = "Load" /\ last'.fsOpen /\ index2Stream_' = "") =>
            /\ ~last'.ret
            /\ index2OpenAttempted_'
            /\ lastError_' = last'.exit
       /\ (Latched /\ last'.op = "Find") =>
            /\ ~last'.fsOpen /\ ~last'.ret
            /\ index2OpenAttempted_' /\ index2Stream_' = ""
            /\ lastError_' = lastError_
       /\ (Latched /\ last'.op = "Load") =>
            (index2OpenAttempted_' => last'.fsOpen)]_vars

\* A lookup has been made while the failed open was on record.
LookupWhileLatched == Latched /\ IsFind /\ lastError_ # ""

====
